---------------------------- MODULE Spec2Model ----------------------------
(***************************************************************************)
(* GeojsonComponent (pnx-geojson): the overlay lifecycle of                *)
(* frontend/src/app/GN2CommonModule/map/geojson/geojson.component.ts.      *)
(*                                                                         *)
(* The component's handlers run on the single-threaded event loop: a       *)
(* handler, once dispatched, runs to completion (or to an uncaught         *)
(* exception) before any other event is dispatched.  ngOnChanges is        *)
(* modelled statement by statement (pc is its position) so that the        *)
(* intermediate states of a refresh can be observed.                       *)
(***************************************************************************)
EXTENDS Integers, Sequences, FiniteSets, TLC

(* ------------------------------ bounds -------------------------------- *)

\* Payload values the host may deliver: 1..MaxPayload.  Payload 1 is a
\* feature collection with no feature (no computable extent).
MaxPayload == 3

\* Refreshes (calls of loadGeojson) explored per behaviour.
MaxRefresh == 3

(* ------------------------------ values -------------------------------- *)

\* JavaScript `undefined`, for object references and payloads alike.
Undefined == 0

\* The Leaflet map instance once the map service holds it.
TheMap == 1

Payloads == 1..MaxPayload

\* A payload the Layer Factory cannot build a layer from.
Malformed == MaxPayload + 1

\* The factory fails (throws) on a malformed payload.
FactoryFails(p) == p = Malformed

\* The observers of currentGeoJson$.  Observers do not interact (each gets
\* the values pushed while it is subscribed), so one is followed.
Subscribers == {1}

\* The bounding extent of a payload's features: none for the empty collection.
Extent(p) == IF p = 1 THEN {} ELSE {p}

VARIABLES
  msMap,          \* this.mapservice.map : Undefined or TheMap
  msLayerGroup,   \* this.mapservice.layerGroup : Undefined or an object id
  thisMap,        \* this.map, captured by ngOnInit
  initDone,       \* ngOnInit has run
  destroyed,      \* the host has destroyed the component
  currentGeojson, \* this.currentGeojson : Undefined or an object id
  geojson,        \* the @Input geojson slot
  zoomOnLayer,    \* the @Input zoomOnLayer
  asCluste,       \* the @Input asCluste (line 31)
  onEachFeature,  \* the @Input onEachFeature: Undefined or a callback
  objs,           \* the Leaflet layers created so far; the id is the index
  mapLayers,      \* the map's registry of attached layers (map._layers)
  viewport,       \* <<>> : the host's view; <<b>> : fitted to bounds b
  emissions,      \* the values pushed on geojsonCharged, in order
  isStopped,      \* geojsonCharged has been completed
  subs,           \* per observer of currentGeoJson$: its subscription
  pc,             \* position inside ngOnChanges, "idle" between events
  chg,            \* the SimpleChanges argument of the running ngOnChanges
  outcome,        \* how the last ngOnChanges ended (history)
  start,          \* the state at the dispatch of the last ngOnChanges (history)
  fit,            \* the fitBounds attempt of the last ngOnChanges (history)
  seenPayload     \* a defined payload was delivered before (history)

vars == <<msMap, msLayerGroup, thisMap, initDone, destroyed, currentGeojson,
          geojson, zoomOnLayer, asCluste, onEachFeature, objs, mapLayers,
          viewport, emissions, isStopped, subs, pc, chg, outcome, start, fit, seenPayload>>

(* --------------------------- Leaflet objects -------------------------- *)

\* The layer the Layer Factory builds from a payload, with the clustering
\* argument and the per-feature callback it was given.
CreateGeojson(p, cluster, cb) ==
  [kind |-> "geojson", src |-> p, children |-> {}, cluster |-> cluster,
   cb |-> cb]

\* new L.FeatureGroup()
NewFeatureGroup ==
  [kind |-> "group", src |-> Undefined, children |-> {}, cluster |-> <<>>,
   cb |-> Undefined]

\* The values the host may bind to onEachFeature: none, or a callback.
Callbacks == {Undefined, 1}

\* this.asCluster, the field loadGeojson reads (line 45).  The class declares
\* and binds asCluste (line 31) and never assigns asCluster: the read yields
\* undefined, written <<>>; a boolean b would be <<b>>.
AsCluster == <<>>

\* Mutant of MapRemoveLayer: the removal has no effect.
MapRemoveLayerNoop(layers, l) == layers

\* map.removeLayer(l): l leaves the map's registry (a no-op when absent).
MapRemoveLayer(layers, l) == layers \ {l}

\* map.addLayer(l): l enters the registry, and with it the layers it holds
\* (nothing happens when the map has l already).
MapAddLayer(layers, l, os) ==
  IF l \in layers THEN layers ELSE layers \cup {l} \cup os[l].children

\* featureGroup.getBounds(): the union of the extents of the layers it holds.
GetBounds(os, g) == UNION {Extent(os[c].src) : c \in os[g].children}

\* LatLngBounds.isValid(): fitBounds throws on bounds that are not valid.
BoundsValid(b) == b # {}

(* ------------------------------ views --------------------------------- *)

\* The RenderedLayers displayed on the map.
Displayed == {l \in mapLayers : objs[l].kind = "geojson"}

\* The LayerGroups attached to the map.
AttachedGroups == {l \in mapLayers : objs[l].kind = "group"}

(* ---------------------------- conditions ------------------------------ *)

\* Mutant of GeojsonChanged: the new value is not tested.
GeojsonChangedAny(c) == c.hasGeo

\* line 55: changes.geojson && changes.geojson.currentValue !== undefined
GeojsonChanged(c) == c.hasGeo /\ c.cur # Undefined

\* Mutant of HasCurrent: the previous layer is never looked for.
HasCurrentNever(cur) == FALSE

\* line 56: this.currentGeojson !== undefined
HasCurrent(cur) == cur # Undefined

\* Mutant of ShouldReframe: the previous value is not tested.
ShouldReframeIgnoringPrevious(c, zoom) == zoom

\* line 61: changes.geojson.previousValue !== undefined && this.zoomOnLayer
ShouldReframe(c, zoom) == c.prev # Undefined /\ zoom

(* ------------------------------- Init --------------------------------- *)

\* An observer that has not subscribed: state is "none", "active" once
\* subscribed, "closed" once unsubscribed; since is the number of values
\* pushed before it subscribed (history).
NotSubscribed == [state |-> "none", received |-> <<>>, since |-> 0]

NoChanges == [hasGeo |-> FALSE, cur |-> Undefined, prev |-> Undefined]

Snapshot(c, zoom) ==
  [unbound |-> msMap = Undefined, emissions |-> emissions,
   viewport |-> viewport, mapLayers |-> mapLayers, nObjs |-> Len(objs),
   prior |-> seenPayload, zoom |-> zoom, chg |-> c,
   current |-> currentGeojson, failed |-> start.failed \/ fit = "failed"]

Init ==
  /\ msMap = Undefined
  /\ msLayerGroup = Undefined
  /\ thisMap = Undefined
  /\ initDone = FALSE
  /\ destroyed = FALSE
  /\ currentGeojson = Undefined
  /\ geojson = Undefined
  /\ zoomOnLayer = TRUE
  /\ asCluste = FALSE
  /\ onEachFeature = Undefined
  /\ objs = <<>>
  /\ mapLayers = {}
  /\ viewport = <<>>
  /\ emissions = <<>>
  /\ isStopped = FALSE
  /\ subs = [s \in Subscribers |-> NotSubscribed]
  /\ pc = "idle"
  /\ chg = NoChanges
  /\ outcome = "none"
  /\ start = [unbound |-> TRUE, emissions |-> <<>>, viewport |-> <<>>,
              mapLayers |-> {}, nObjs |-> 0, prior |-> FALSE, zoom |-> TRUE,
              chg |-> NoChanges, current |-> Undefined, failed |-> FALSE]
  /\ fit = "no"
  /\ seenPayload = FALSE

(* ------------------------- environment events ------------------------- *)

\* The map component hands its Leaflet map to the map service.
BindMap ==
  /\ pc = "idle"
  /\ msMap = Undefined
  /\ msMap' = TheMap
  /\ UNCHANGED <<msLayerGroup, thisMap, initDone, destroyed, currentGeojson,
                 geojson, zoomOnLayer, asCluste, onEachFeature, objs, mapLayers, viewport, emissions,
                 isStopped, subs, pc, chg, outcome, start, fit, seenPayload>>

\* ngOnInit: this.map = this.mapservice.map
NgOnInit ==
  /\ pc = "idle"
  /\ ~initDone
  /\ ~destroyed
  /\ thisMap' = msMap
  /\ initDone' = TRUE
  /\ UNCHANGED <<msMap, msLayerGroup, destroyed, currentGeojson, geojson,
                 zoomOnLayer, asCluste, onEachFeature, objs, mapLayers, viewport, emissions, isStopped, subs,
                 pc, chg, outcome, start, fit, seenPayload>>

\* The host destroys the component.  The class declares no ngOnDestroy, so
\* no code of the component runs.
Destroy ==
  /\ pc = "idle"
  /\ ~destroyed
  /\ destroyed' = TRUE
  /\ UNCHANGED <<msMap, msLayerGroup, thisMap, initDone, currentGeojson,
                 geojson, zoomOnLayer, asCluste, onEachFeature, objs, mapLayers, viewport, emissions,
                 isStopped, subs, pc, chg, outcome, start, fit, seenPayload>>

(* ------------------------- currentGeoJson$ ---------------------------- *)

\* Mutant of OnSubscribe: the subject replays what it pushed before.
OnSubscribeReplay(em) == em

\* What a plain Subject hands to a new observer at subscription: nothing.
OnSubscribe(em) == <<>>

\* An outside observer subscribes to currentGeoJson$ (between two events).
Subscribe(s) ==
  /\ pc = "idle"
  /\ subs[s].state = "none"
  /\ subs' = [subs EXCEPT ![s] = [state |-> IF isStopped THEN "closed" ELSE "active",
                                  received |-> OnSubscribe(emissions),
                                  since |-> Len(emissions)]]
  /\ UNCHANGED <<msMap, msLayerGroup, thisMap, initDone, destroyed,
                 currentGeojson, geojson, zoomOnLayer, asCluste, onEachFeature, objs, mapLayers,
                 viewport, emissions, isStopped, pc, chg, outcome, start, fit,
                 seenPayload>>

\* The observer unsubscribes.
Unsubscribe(s) ==
  /\ pc = "idle"
  /\ subs[s].state = "active"
  /\ subs' = [subs EXCEPT ![s].state = "closed"]
  /\ UNCHANGED <<msMap, msLayerGroup, thisMap, initDone, destroyed,
                 currentGeojson, geojson, zoomOnLayer, asCluste, onEachFeature, objs, mapLayers,
                 viewport, emissions, isStopped, pc, chg, outcome, start, fit,
                 seenPayload>>

(* ----------------------------- ngOnChanges ---------------------------- *)

\* An uncaught exception leaves the handler.
Throw ==
  /\ pc' = "idle"
  /\ outcome' = "thrown"

\* The handler returns normally.
Return ==
  /\ pc' = "idle"
  /\ outcome' = "completed"

\* Change detection sets the inputs that changed and calls ngOnChanges with
\* them; lines 55 and 56 are evaluated at once.  The first call may precede
\* ngOnInit, every later one follows it.
NgOnChanges(v, z, c, f) ==
  /\ pc = "idle"
  /\ ~destroyed
  /\ initDone \/ outcome = "none"
  /\ v # geojson \/ z # zoomOnLayer \/ c # asCluste \/ f # onEachFeature
  /\ (v # geojson /\ v # Undefined) => Len(objs) < 2 * MaxRefresh
  /\ LET ch == [hasGeo |-> v # geojson, cur |-> v, prev |-> geojson] IN
       /\ geojson' = v
       /\ zoomOnLayer' = z
       /\ asCluste' = c
       /\ onEachFeature' = f
       /\ chg' = ch
       /\ start' = Snapshot(ch, z)
       /\ fit' = "no"
       /\ IF GeojsonChanged(ch)
            THEN /\ outcome' = "running"
                 /\ seenPayload' = TRUE
                 /\ pc' = IF HasCurrent(currentGeojson) THEN "remove" ELSE "create"
            ELSE /\ outcome' = "skipped"
                 /\ seenPayload' = seenPayload
                 /\ pc' = "idle"
  /\ UNCHANGED <<msMap, msLayerGroup, thisMap, initDone, destroyed,
                 currentGeojson, objs, mapLayers, viewport, emissions,
                 isStopped, subs>>

\* Mutant of LoadGeojsonOrder: the value is pushed once the layer is on the
\* map (build, new group, attach, add, emit).
LoadGeojsonOrderEmitLast(p) ==
  CASE p = "create" -> "group"
    [] p = "group" -> "attach"
    [] p = "attach" -> "add"
    [] p = "add" -> "emit"
    [] p = "emit" -> "reframe"

\* lines 43-51 and 59-61: the statement that follows statement p of
\* loadGeojson (build, emit, new group, attach, add, then back in ngOnChanges).
LoadGeojsonOrder(p) ==
  CASE p = "create" -> "emit"
    [] p = "emit" -> "group"
    [] p = "group" -> "attach"
    [] p = "attach" -> "add"
    [] p = "add" -> "reframe"

\* line 57: this.mapservice.map.removeLayer(this.currentGeojson)
RemoveOld ==
  /\ pc = "remove"
  /\ IF msMap = Undefined
       THEN Throw /\ UNCHANGED mapLayers
       ELSE /\ mapLayers' = MapRemoveLayer(mapLayers, currentGeojson)
            /\ pc' = "create"
            /\ UNCHANGED outcome
  /\ UNCHANGED <<msMap, msLayerGroup, thisMap, initDone, destroyed,
                 currentGeojson, geojson, zoomOnLayer, asCluste, onEachFeature, objs, viewport,
                 emissions, isStopped, subs, chg, start, fit, seenPayload>>

\* lines 43-47: this.currentGeojson = this.mapservice.createGeojson(...)
\* A failure of the factory leaves loadGeojson and ngOnChanges uncaught,
\* before the assignment to this.currentGeojson.
BuildLayer ==
  /\ pc = "create"
  /\ IF FactoryFails(chg.cur)
       THEN Throw /\ UNCHANGED <<objs, currentGeojson>>
       ELSE /\ objs' = Append(objs, CreateGeojson(chg.cur, AsCluster, onEachFeature))
            /\ currentGeojson' = Len(objs) + 1
            /\ pc' = LoadGeojsonOrder("create")
            /\ UNCHANGED outcome
  /\ UNCHANGED <<msMap, msLayerGroup, thisMap, initDone, destroyed, geojson,
                 zoomOnLayer, asCluste, onEachFeature, mapLayers, viewport,
                 emissions, isStopped, subs, chg, start, fit, seenPayload>>

\* Mutant of SubjectNext: the value is not pushed.
SubjectNextDropped(em, v) == em

\* Subject.next(v): delivered unless the subject is stopped.
SubjectNext(em, v) == IF isStopped THEN em ELSE Append(em, v)

\* Subject.next(v) hands v to every observer subscribed at that moment.
Deliver(sb, v) ==
  [s \in DOMAIN sb |->
     IF sb[s].state = "active" /\ ~isStopped
       THEN [sb[s] EXCEPT !.received = Append(@, v)]
       ELSE sb[s]]

\* line 48: this.geojsonCharged.next(this.currentGeojson)
Emit ==
  /\ pc = "emit"
  /\ emissions' = SubjectNext(emissions, currentGeojson)
  /\ subs' = Deliver(subs, currentGeojson)
  /\ pc' = LoadGeojsonOrder("emit")
  /\ UNCHANGED <<msMap, msLayerGroup, thisMap, initDone, destroyed,
                 currentGeojson, geojson, zoomOnLayer, asCluste, onEachFeature, objs, mapLayers,
                 viewport, isStopped, chg, outcome, start, fit, seenPayload>>

\* Mutant of NewGroup: the group is created once and reused afterwards.
NewGroupReused ==
  /\ pc = "group"
  /\ IF msLayerGroup = Undefined
       THEN /\ objs' = Append(objs, NewFeatureGroup)
            /\ msLayerGroup' = Len(objs) + 1
       ELSE UNCHANGED <<objs, msLayerGroup>>
  /\ pc' = LoadGeojsonOrder("group")
  /\ UNCHANGED <<msMap, thisMap, initDone, destroyed, currentGeojson, geojson,
                 zoomOnLayer, asCluste, onEachFeature, mapLayers, viewport,
                 emissions, isStopped, subs, chg, outcome, start, fit,
                 seenPayload>>

\* line 49: this.mapservice.layerGroup = new L.FeatureGroup()
NewGroup ==
  /\ pc = "group"
  /\ objs' = Append(objs, NewFeatureGroup)
  /\ msLayerGroup' = Len(objs) + 1
  /\ pc' = LoadGeojsonOrder("group")
  /\ UNCHANGED <<msMap, thisMap, initDone, destroyed, currentGeojson, geojson,
                 zoomOnLayer, asCluste, onEachFeature, mapLayers, viewport, emissions, isStopped, subs, chg,
                 outcome, start, fit, seenPayload>>

\* line 50: this.mapservice.map.addLayer(this.mapservice.layerGroup)
AttachGroup ==
  /\ pc = "attach"
  /\ IF msMap = Undefined
       THEN Throw /\ UNCHANGED mapLayers
       ELSE /\ mapLayers' = MapAddLayer(mapLayers, msLayerGroup, objs)
            /\ pc' = LoadGeojsonOrder("attach")
            /\ UNCHANGED outcome
  /\ UNCHANGED <<msMap, msLayerGroup, thisMap, initDone, destroyed,
                 currentGeojson, geojson, zoomOnLayer, asCluste, onEachFeature, objs, viewport,
                 emissions, isStopped, subs, chg, start, fit, seenPayload>>

\* line 51: this.mapservice.layerGroup.addLayer(this.currentGeojson)
\* The group records the layer and, being on the map, adds it to the map.
AddToGroup ==
  /\ pc = "add"
  /\ objs' = [objs EXCEPT ![msLayerGroup].children = @ \cup {currentGeojson}]
  /\ mapLayers' = IF msLayerGroup \in mapLayers
                    THEN mapLayers \cup {currentGeojson}
                    ELSE mapLayers
  /\ pc' = LoadGeojsonOrder("add")
  /\ UNCHANGED <<msMap, msLayerGroup, thisMap, initDone, destroyed,
                 currentGeojson, geojson, zoomOnLayer, asCluste, onEachFeature, viewport, emissions,
                 isStopped, subs, chg, outcome, start, fit, seenPayload>>

\* line 61: the reframe condition
CheckReframe ==
  /\ pc = "reframe"
  /\ IF ShouldReframe(chg, zoomOnLayer)
       THEN pc' = "fit" /\ UNCHANGED outcome
       ELSE Return
  /\ UNCHANGED <<msMap, msLayerGroup, thisMap, initDone, destroyed,
                 currentGeojson, geojson, zoomOnLayer, asCluste, onEachFeature, objs, mapLayers,
                 viewport, emissions, isStopped, subs, chg, start, fit, seenPayload>>

\* Mutant of FitSucceeds: invalid bounds are accepted.
FitSucceedsUnchecked(m, b) == m # Undefined

\* The try block succeeds: this.map is a map and the bounds are valid.
FitSucceeds(m, b) == m # Undefined /\ BoundsValid(b)

\* Mutant of AfterCatch: the catch block forwards the error to the subject
\* (geojsonCharged.error), which stops it.
AfterCatchError(stopped) == TRUE

\* lines 66-68: the catch block only logs; the channel stays as it was.
AfterCatch(stopped) == stopped

\* lines 64-68: try { this.map.fitBounds(layerGroup.getBounds()) } catch {log}
\* A TypeError (this.map undefined) and the invalid-bounds Error are both
\* caught; the handler returns normally in every case.
FitBounds ==
  /\ pc = "fit"
  /\ LET b == GetBounds(objs, msLayerGroup) IN
       IF FitSucceeds(thisMap, b)
         THEN viewport' = <<b>> /\ fit' = "ok" /\ isStopped' = isStopped
         ELSE /\ viewport' = viewport
              /\ fit' = "failed"
              /\ isStopped' = AfterCatch(isStopped)
  /\ Return
  /\ UNCHANGED <<msMap, msLayerGroup, thisMap, initDone, destroyed,
                 currentGeojson, geojson, zoomOnLayer, asCluste, onEachFeature, objs, mapLayers,
                 emissions, subs, chg, start, seenPayload>>

(* ------------------------------- Spec --------------------------------- *)

\* One event of the component with the host changing the geojson slot and
\* zoomOnLayer only, and no outside observer.
Next ==
  \/ BindMap
  \/ NgOnInit
  \/ Destroy
  \/ \E v \in Payloads \cup {Malformed, Undefined}, z \in BOOLEAN :
        NgOnChanges(v, z, asCluste, onEachFeature)
  \/ RemoveOld
  \/ BuildLayer
  \/ Emit
  \/ NewGroup
  \/ AttachGroup
  \/ AddToGroup
  \/ CheckReframe
  \/ FitBounds

Spec == Init /\ [][Next]_vars

\* The same with an observer subscribing to and leaving currentGeoJson$.
NextChannel ==
  \/ Next
  \/ \E s \in Subscribers : Subscribe(s)
  \/ \E s \in Subscribers : Unsubscribe(s)

SpecChannel == Init /\ [][NextChannel]_vars

\* The same with the host changing every input of the component.
NextInputs ==
  \/ Next
  \/ \E v \in Payloads \cup {Malformed, Undefined}, z \in BOOLEAN, c \in BOOLEAN,
        f \in Callbacks : NgOnChanges(v, z, c, f)

SpecInputs == Init /\ [][NextInputs]_vars

(* ---------------------------------------------------------------------- *)
(* Properties                                                             *)
(* ---------------------------------------------------------------------- *)

\* The last ngOnChanges was a refresh that returned normally.
RefreshCompleted == pc = "idle" /\ outcome = "completed"

\* The last ngOnChanges was a refresh (it passed line 55), running or ended.
InRefresh == outcome \in {"running", "completed", "thrown"}

\* C1 (P1): after each refresh completes the map contains exactly one
\* LayerGroup, the one of this refresh, holding exactly the RenderedLayer
\* built from the most recent payload.
C1_OneLayerGroup ==
  RefreshCompleted =>
    /\ AttachedGroups = {msLayerGroup}
    /\ objs[msLayerGroup].children = {currentGeojson}
    /\ objs[currentGeojson].src = geojson

\* C2: after each refresh completes, the RenderedLayers displayed on the map
\* are exactly the layer built by that refresh from its payload, and
\* currentGeojson is that layer.
C2_DisplayedIsCurrent ==
  RefreshCompleted =>
    /\ Displayed = {currentGeojson}
    /\ currentGeojson > start.nObjs
    /\ objs[currentGeojson].src = start.chg.cur

\* C2 witness: a refresh completed that replaced a layer displayed before it.
C2_Witness ==
  /\ RefreshCompleted
  /\ \E l \in start.mapLayers : objs[l].kind = "geojson"

\* C3 (P2): the old layer is off the map before the new LayerGroup is
\* attached (nothing is displayed from the removal to the attachment), and in
\* no state are two RenderedLayers displayed together.
C3_RemoveBeforeAdd ==
  /\ pc \in {"create", "emit", "group", "attach", "add"} => Displayed = {}
  /\ Cardinality(Displayed) <= 1

\* C3 witness: the new group is about to be attached in a refresh that
\* started with a layer displayed.
C3_Witness ==
  /\ pc = "attach"
  /\ msMap # Undefined
  /\ \E l \in start.mapLayers : objs[l].kind = "geojson"

\* C4 (P5): a refresh that completes has emitted exactly one value, the
\* layer it built from its payload; and the channel only grows while a
\* refresh runs.
C4_OneEmission ==
  /\ [](RefreshCompleted =>
          /\ emissions = Append(start.emissions, currentGeojson)
          /\ currentGeojson > start.nObjs
          /\ objs[currentGeojson].src = start.chg.cur)
  /\ [][emissions' # emissions => outcome = "running" /\ pc # "idle"]_vars

\* C4 witness: a second refresh completed, its emission following the first.
C4_Witness ==
  /\ RefreshCompleted
  /\ Len(emissions) = 2

\* C5 (P6): a payload change processed while the map service holds no map
\* mutates nothing on the map and emits nothing.
C5_UnboundNoEffect ==
  (InRefresh /\ start.unbound) =>
    /\ mapLayers = start.mapLayers
    /\ emissions = start.emissions

\* C6: a payload change processed while the map service holds no map raises
\* no exception, and no current layer is recorded while the handle is missing.
C6_UnboundSkipped ==
  (InRefresh /\ start.unbound) =>
    /\ outcome # "thrown"
    /\ msMap = Undefined => currentGeojson = Undefined

\* C7 (P3, necessary): fitBounds is attempted only in a refresh that follows
\* an earlier processed payload and with zoomOnLayer true; any other refresh
\* leaves the viewport as it found it.
C7_ReframeOnlyAfterFirst ==
  /\ (pc = "fit" \/ fit # "no") => (start.prior /\ start.zoom)
  /\ (InRefresh /\ ~(start.prior /\ start.zoom)) => viewport = start.viewport

\* C7 witness: a refresh moved the viewport.
C7_Witness ==
  /\ RefreshCompleted
  /\ fit = "ok"
  /\ viewport # start.viewport

\* C8 (P3, sufficient): every completed refresh of a payload that is not the
\* first one processed, with zoomOnLayer true and a non-empty extent, leaves
\* the viewport fitted to the extent of the newly installed LayerGroup.
C8_ReframeAfterFirst ==
  (/\ RefreshCompleted
   /\ start.prior
   /\ start.zoom
   /\ Extent(start.chg.cur) # {}) =>
     viewport = <<GetBounds(objs, msLayerGroup)>>

\* C9 (P4): with the map bound, a refresh of a payload without computable
\* extent returns normally, leaves the viewport unchanged, and leaves the
\* empty overlay installed and recorded as the current layer.
C9_EmptyExtentSafe ==
  (/\ pc = "idle"
   /\ outcome \in {"completed", "thrown"}
   /\ ~start.unbound
   /\ Extent(start.chg.cur) = {}) =>
     /\ outcome = "completed"
     /\ viewport = start.viewport
     /\ msLayerGroup \in mapLayers
     /\ objs[msLayerGroup].children = {currentGeojson}
     /\ Displayed = {currentGeojson}
     /\ objs[currentGeojson].src = start.chg.cur

\* C9 witness: fitBounds was attempted on the map for an empty overlay and
\* failed.
C9_Witness ==
  /\ RefreshCompleted
  /\ fit = "failed"
  /\ thisMap # Undefined
  /\ Extent(start.chg.cur) = {}

\* C10: once the component is destroyed the notification channel is
\* completed.
C10_ClosedOnDestroy == destroyed => isStopped

\* C11: an observer of currentGeoJson$ has received exactly the layers pushed
\* since it subscribed, in order and none from before: all of them while it
\* is subscribed, those up to its unsubscription afterwards.
C11_NoReplayAllAfter ==
  \A s \in Subscribers :
    subs[s].state # "none" =>
      /\ subs[s].since + Len(subs[s].received) <= Len(emissions)
      /\ subs[s].received =
           SubSeq(emissions, subs[s].since + 1,
                  subs[s].since + Len(subs[s].received))
      /\ subs[s].state = "active" =>
           subs[s].since + Len(subs[s].received) = Len(emissions)

\* C11 witness: an observer that joined after one refresh has received the
\* layer of the next refresh and not the first one.
C11_Witness ==
  \E s \in Subscribers :
    /\ subs[s].state = "active"
    /\ subs[s].since = 1
    /\ Len(emissions) = 2
    /\ subs[s].received = <<emissions[2]>>

\* The clustering argument as the factory tests it: clustering is on only
\* for the boolean true (undefined and false both turn it off).
Clusters(arg) == arg = <<TRUE>>

\* C12: the layer built by a refresh was built with the clustering the
\* asCluste input asks for at that refresh, and with the current
\* onEachFeature callback.
C12_ConfigPassedThrough ==
  (InRefresh /\ currentGeojson > start.nObjs) =>
    /\ Clusters(objs[currentGeojson].cluster) = asCluste
    /\ objs[currentGeojson].cb = onEachFeature

\* What the running or ended refresh has done so far.
OldRemoved == \A l \in start.mapLayers : objs[l].kind = "geojson" => l \notin mapLayers
Built == currentGeojson > start.nObjs
Emitted == emissions # start.emissions
GroupAttached == msLayerGroup > start.nObjs /\ msLayerGroup \in mapLayers
Installed == Built /\ currentGeojson \in mapLayers

\* C13, as claimed: in a refresh the layer is built before the old one is
\* removed, a layer is installed on the map by the time it is emitted, and
\* the viewport is reframed after the emission.
C13_ClaimedOrder ==
  (InRefresh /\ ~start.unbound) =>
    /\ (start.mapLayers # {} /\ OldRemoved) => Built
    /\ Emitted => Installed
    /\ fit # "no" => Emitted

\* C13, amended: in a refresh the old layer is removed, then the layer is
\* built, then emitted, then the new group is attached, then the layer is
\* added to it, then the viewport is reframed; a layer is not yet on the map
\* at the moment it is emitted.
C13_ActualOrder ==
  InRefresh =>
    /\ Built => OldRemoved
    /\ Emitted => Built
    /\ GroupAttached => Emitted
    /\ Installed => GroupAttached
    /\ fit # "no" => Installed
    /\ (Emitted /\ ~GroupAttached) => ~Installed

\* C13 witness: the layer of a refresh that replaces a displayed layer has
\* just been emitted and is not on the map.
C13_Witness ==
  /\ outcome = "running"
  /\ ~start.unbound
  /\ \E l \in start.mapLayers : objs[l].kind = "geojson"
  /\ Emitted
  /\ ~Installed

\* C14: a refresh of a well-formed payload that follows a refresh whose
\* reframe failed is a complete refresh: it returns normally with the old
\* layer removed, the new one built, emitted and installed, and the reframe
\* attempted exactly under the usual condition.
C14_RefreshAfterFailedReframe ==
  (/\ pc = "idle"
   /\ outcome \in {"completed", "thrown"}
   /\ start.failed
   /\ start.chg.cur # Malformed) =>
     /\ outcome = "completed"
     /\ OldRemoved
     /\ Built
     /\ objs[currentGeojson].src = start.chg.cur
     /\ emissions = Append(start.emissions, currentGeojson)
     /\ GroupAttached
     /\ Displayed = {currentGeojson}
     /\ fit # "no" <=> (start.chg.prev # Undefined /\ start.zoom)

\* C14 witness: after a failed reframe, a later refresh completed and its
\* reframe succeeded.
C14_Witness ==
  /\ RefreshCompleted
  /\ start.failed
  /\ fit = "ok"

\* C15: a completed refresh has created a LayerGroup that did not exist
\* before it, holding exactly the new RenderedLayer; a reframe of that
\* refresh fits the viewport to the extent of that group, which is the
\* extent of the new payload.
C15_FreshGroup ==
  RefreshCompleted =>
    /\ msLayerGroup > start.nObjs
    /\ objs[msLayerGroup].kind = "group"
    /\ objs[msLayerGroup].children = {currentGeojson}
    /\ fit = "ok" =>
         /\ viewport = <<GetBounds(objs, msLayerGroup)>>
         /\ viewport = <<Extent(start.chg.cur)>>

\* C15 witness: a refresh reframed the viewport while the group of an
\* earlier refresh exists.
C15_Witness ==
  /\ RefreshCompleted
  /\ fit = "ok"
  /\ \E g \in 1..start.nObjs : objs[g].kind = "group" /\ g \in mapLayers

\* An ngOnChanges is dispatched: some input takes a new value.
InputsChange ==
  /\ pc = "idle"
  /\ <<geojson, zoomOnLayer, asCluste, onEachFeature>>' #
       <<geojson, zoomOnLayer, asCluste, onEachFeature>>

\* C16: an ngOnChanges that carries no defined new value for the geojson
\* slot (another input changed, or the slot became undefined) returns at once
\* and changes neither the map, the groups and layers, the current layer,
\* the viewport nor the channel.
C16_NoPayloadNoEffect ==
  [][(InputsChange /\ (geojson' = geojson \/ geojson' = Undefined)) =>
       /\ pc' = "idle"
       /\ UNCHANGED <<mapLayers, objs, msLayerGroup, currentGeojson, viewport,
                      emissions, isStopped, subs, msMap, thisMap>>]_vars

\* C16 witness: the slot was reset to undefined while an overlay was
\* displayed, and the overlay is still displayed.
C16_Witness ==
  /\ pc = "idle"
  /\ outcome = "skipped"
  /\ start.chg.hasGeo
  /\ geojson = Undefined
  /\ Displayed = {currentGeojson}

\* C17: when the Layer Factory fails in a refresh that started with the
\* current layer displayed, the map is as it was before the refresh, the
\* current layer is still that layer and is displayed, and nothing was
\* emitted.
C17_FactoryFailureKeepsState ==
  (/\ pc = "idle"
   /\ outcome = "thrown"
   /\ FactoryFails(start.chg.cur)
   /\ start.current \in start.mapLayers) =>
     /\ mapLayers = start.mapLayers
     /\ currentGeojson = start.current
     /\ currentGeojson \in Displayed
     /\ emissions = start.emissions

\* C18: whenever fitBounds is about to be invoked, this.map (captured by
\* ngOnInit) is the map of the map service, to which the new LayerGroup was
\* attached.
C18_SameMap == pc = "fit" => thisMap = msMap

=============================================================================
